---- MODULE Spec2Model ----
(***************************************************************************)
(* LexOrigin: the legislative-intent pipeline of the three clients.        *)
(*                                                                         *)
(*   "app"  src/App.tsx               (API client, hosts LawLibrary and    *)
(*                                     components/LegalAssistant.tsx)      *)
(*   "mvp"  src/unnamed/part_007      (mock-data client, Gemini service,   *)
(*                                     hosts the LegalAssistant of         *)
(*                                     src/unnamed/part_004)               *)
(*   "web"  src/unnamed/part_002      (web App: handleAnalyze,             *)
(*                                     handleSearch, debounce effect)      *)
(*                                                                         *)
(* Every handler is one atomic action (React runs a handler and the state  *)
(* updates it batches to completion); an await splits a handler into the   *)
(* action that issues the call and the action that consumes its outcome.   *)
(* Each specification fixes one subsystem and leaves the variables of the  *)
(* others at their initial values.                                         *)
(***************************************************************************)
EXTENDS Integers, Sequences, FiniteSets, TLC

VARIABLES
    client,          \* which client variant this behaviour runs
    selectedLaw,     \* useState selectedLaw (a law id, or NULL)
    analysisState,   \* app / mvp: useState<AnalysisState>
    analysis,        \* web: useState analysis (None or Some(payload))
    isLoading,       \* web: useState isLoading
    timelineEvents,  \* web: useState timelineEvents
    pending,         \* analysis calls awaiting their outcome
    issued,          \* number of analysis calls issued so far
    analyzedFor,     \* history: the law handleAnalyze was started for since the
                     \* last selection (NULL if none)
    lastEvent        \* history: the handler step that produced this state

VARIABLES
    searchTerm,      \* LawLibrary: useState searchTerm
    searchQuery,     \* web: useState searchQuery
    useAISearch,     \* LawLibrary / web: useState useAISearch
    isSearching,     \* LawLibrary / web: useState isSearching
    searchResults,   \* LawLibrary: useState searchResults (None is null)
    filteredLaws,    \* web: useState filteredLaws
    timers,          \* scheduled searches, in the order they will fire
    searchCalls,     \* semantic-search calls awaiting their outcome
    issuedQueries,   \* history: the queries of the calls issued, in order
    lastSearch       \* history: the search step that produced this state

VARIABLES
    laws,            \* LegalAssistant's laws prop, as the ids of its records
    messages,        \* LegalAssistant: the ChatMessage list
    input,           \* LegalAssistant: the text of the input box
    isTyping,        \* LegalAssistant: a query is being answered
    asked            \* the question of the directQuery / askLegalAssistant call awaited, if any

VARIABLES
    msgContent,      \* the msg.content handed to renderMessageContent
    rendered         \* what renderMessageContent returned for it, scan after scan (None before the first)

VARIABLES
    events,          \* Timeline's quotes / InteractiveTimeline's events, as their date strings
    parsedDates,     \* what parseDate returned for each of them (None before the render)
    positions        \* the nodes laid out, in the order they are drawn (None before the render)

VARIABLES
    serviceOutput,   \* history: what the analysis service produced for the call settled last (None before)
    panel            \* what AnalysisPanel / IntentPanel returned at its last render

analysisVars ==
    <<selectedLaw, analysisState, analysis, isLoading,
      timelineEvents, pending, issued, analyzedFor, lastEvent>>

searchVars ==
    <<searchTerm, searchQuery, useAISearch, isSearching, searchResults,
      filteredLaws, timers, searchCalls, issuedQueries, lastSearch>>

assistantVars == <<laws, messages, input, isTyping, asked>>

renderVars == <<msgContent, rendered>>

timelineVars == <<events, parsedDates, positions>>

responseVars == <<serviceOutput, panel>>

vars ==
    <<client, analysisVars, searchVars, assistantVars, renderVars, timelineVars,
      responseVars>>

(***************************************************************************)
(* Values                                                                  *)
(***************************************************************************)
NULL == "null"
None == <<>>
Some(x) == <<x>>

\* The most analysis calls one behaviour issues.
MaxRequests == 2

AnalysisClients == {"app", "mvp", "web"}

\* ids of MOCK_LAWS that the behaviours select among
LawIds == {"CRIM-CODE-229", "CRIM-CODE-319", "CRIM-CODE-380"}

\* MOCK_DEBATES: the laws that have debate records (d1..d4 -> 229, d5..d6 -> 319)
MOCK_DEBATES ==
    [l \in LawIds |->
        CASE l = "CRIM-CODE-229" -> <<"d1", "d2", "d3", "d4">>
          [] l = "CRIM-CODE-319" -> <<"d5", "d6">>
          [] OTHER -> <<>>]

\* the date fields of the citations of a response: none, one of each kind of
\* date string ("" is a missing field), and a dated one before an undated one
CitationDates ==
    { <<>>, <<"">>, <<"Unknown">>, <<"2001-05-01">>, <<"2001-05-01", "Unknown">> }

\* The citations a response for law l may carry.
CitationsFor(l) ==
    {[i \in 1..Len(ds) |-> [law |-> l, date |-> ds[i]]] : ds \in CitationDates}

\* What the awaited call of a request for law l can produce: a payload, or a
\* rejection carrying an Error whose message may be empty.
Outcomes(l) ==
    {[ok |-> TRUE, law |-> l, citations |-> c, message |-> ""] : c \in CitationsFor(l)}
    \cup {[ok |-> FALSE, law |-> l, citations |-> <<>>, message |-> m] :
             m \in {"Failed to analyze intent", ""}}

(***************************************************************************)
(* src/App.tsx                                                             *)
(***************************************************************************)
\* AnalysisState after construction and after handleLawSelect
InitialAnalysisState ==
    [isLoading |-> FALSE, data |-> None, relatedQuotes |-> <<>>, error |-> NULL]

\* convertAnalysis: quotes get an index id and 'Unknown' for a missing date
convertAnalysis(apiResponse) ==
    [data |-> [law |-> apiResponse.law],
     quotes |-> [i \in 1..Len(apiResponse.citations) |->
                   [id |-> i,
                    law |-> apiResponse.citations[i].law,
                    date |-> IF apiResponse.citations[i].date = ""
                             THEN "Unknown"
                             ELSE apiResponse.citations[i].date]]]

\* err.message || "An unexpected error occurred."
ErrorMessage(err) ==
    IF err.message = "" THEN "An unexpected error occurred." ELSE err.message

\* the state written by the try branch of handleAnalyze
AnalyzeSucceeded(prev, data, quotes) ==
    [isLoading |-> FALSE, data |-> Some(data), relatedQuotes |-> quotes, error |-> NULL]

\* a catch branch that records the message and leaves isLoading as it was
AnalyzeFailedStillLoading(prev, err) ==
    [prev EXCEPT !.error = ErrorMessage(err)]

\* a catch branch that drops the result held so far
AnalyzeFailedClearsData(prev, err) ==
    [isLoading |-> FALSE, data |-> None, relatedQuotes |-> <<>>,
     error |-> ErrorMessage(err)]

\* the state written by the catch branch of handleAnalyze
AnalyzeFailed(prev, err) ==
    [prev EXCEPT !.isLoading = FALSE, !.error = ErrorMessage(err)]

\* the frame of every analysis action: the other subsystems stand still
OutsideAnalysis == UNCHANGED <<searchVars, assistantVars, renderVars, timelineVars, responseVars>>

AnalysisUnchangedWeb ==
    /\ UNCHANGED <<analysis, isLoading, timelineEvents>>
    /\ OutsideAnalysis

\* handleLawSelect (app; the mvp's select only fires for another law)
HandleLawSelect(l) ==
    /\ client \in {"app", "mvp"}
    /\ client = "mvp" => l # selectedLaw
    /\ selectedLaw' = l
    /\ analysisState' = InitialAnalysisState
    /\ analyzedFor' = NULL
    /\ lastEvent' = [type |-> "select", law |-> l]
    /\ UNCHANGED <<client, pending, issued>>
    /\ AnalysisUnchangedWeb

\* handleAnalyze up to its await: the button is disabled while isLoading
HandleAnalyze ==
    /\ client = "app"
    /\ selectedLaw # NULL
    /\ ~analysisState.isLoading
    /\ issued < MaxRequests
    /\ analysisState' = [analysisState EXCEPT !.isLoading = TRUE, !.error = NULL]
    /\ pending' = pending \cup {[rid |-> issued + 1, law |-> selectedLaw]}
    /\ issued' = issued + 1
    /\ analyzedFor' = selectedLaw
    /\ lastEvent' = [type |-> "analyze", law |-> selectedLaw]
    /\ UNCHANGED <<client, selectedLaw>>
    /\ AnalysisUnchangedWeb

\* handleAnalyze after its await: analyzeIntent resolved or rejected
AnalyzeSettles(r, out) ==
    /\ client = "app"
    /\ r \in pending
    /\ out \in Outcomes(r.law)
    /\ pending' = pending \ {r}
    /\ analysisState' =
          IF out.ok
          THEN AnalyzeSucceeded(analysisState, convertAnalysis(out).data,
                                convertAnalysis(out).quotes)
          ELSE AnalyzeFailed(analysisState, out)
    /\ lastEvent' = [type |-> IF out.ok THEN "resolved" ELSE "rejected", law |-> r.law]
    /\ UNCHANGED <<client, selectedLaw, issued, analyzedFor>>
    /\ AnalysisUnchangedWeb

(***************************************************************************)
(* src/unnamed/part_007 (mvp App) with the Gemini service of part_000      *)
(***************************************************************************)
\* analyzeLegislativeIntent: resolves with the parsed JSON, or rethrows the
\* API error, "No response generated" or the SyntaxError of JSON.parse
GeminiOutcomes(l) ==
    {[ok |-> TRUE, law |-> l, citations |-> <<>>, message |-> ""]}
    \cup {[ok |-> FALSE, law |-> l, citations |-> <<>>, message |-> m] :
             m \in {"No response generated", "Unexpected token", ""}}

\* MOCK_DEBATES.filter(d => d.lawId === law.id)
relatedDebates(l) ==
    [i \in 1..Len(MOCK_DEBATES[l]) |-> [id |-> MOCK_DEBATES[l][i], law |-> l]]

NoDebatesError ==
    [ok |-> FALSE, message |-> "No historical debates found for this section."]

\* handleAnalyze up to its await; with no debates the throw is caught at once
MvpHandleAnalyze ==
    /\ client = "mvp"
    /\ ~analysisState.isLoading
    /\ issued < MaxRequests
    /\ issued' = issued + 1
    /\ analyzedFor' = selectedLaw
    /\ IF Len(relatedDebates(selectedLaw)) = 0
       THEN /\ analysisState' =
                 AnalyzeFailed([analysisState EXCEPT !.isLoading = TRUE, !.error = NULL],
                               NoDebatesError)
            /\ pending' = pending
            /\ lastEvent' = [type |-> "rejected", law |-> selectedLaw]
       ELSE /\ analysisState' =
                 [analysisState EXCEPT !.isLoading = TRUE, !.error = NULL]
            /\ pending' = pending \cup {[rid |-> issued + 1, law |-> selectedLaw]}
            /\ lastEvent' = [type |-> "analyze", law |-> selectedLaw]
    /\ UNCHANGED <<client, selectedLaw>>
    /\ AnalysisUnchangedWeb

\* handleAnalyze after its await
MvpAnalyzeSettles(r, out) ==
    /\ client = "mvp"
    /\ r \in pending
    /\ out \in GeminiOutcomes(r.law)
    /\ pending' = pending \ {r}
    /\ analysisState' =
          IF out.ok
          THEN AnalyzeSucceeded(analysisState, [law |-> out.law], relatedDebates(r.law))
          ELSE AnalyzeFailed(analysisState, out)
    /\ lastEvent' = [type |-> IF out.ok THEN "resolved" ELSE "rejected", law |-> r.law]
    /\ UNCHANGED <<client, selectedLaw, issued, analyzedFor>>
    /\ AnalysisUnchangedWeb

(***************************************************************************)
(* src/unnamed/part_002 (web App): law list click and handleAnalyze        *)
(***************************************************************************)
RECURSIVE SelectSeq2(_, _)
\* Array.prototype.filter with the predicate given as the set of kept values
SelectSeq2(s, keep) ==
    IF s = <<>> THEN <<>>
    ELSE (IF Head(s) \in keep THEN <<Head(s)>> ELSE <<>>) \o SelectSeq2(Tail(s), keep)

\* data.citations.filter(c => c.date && c.date !== 'Unknown').map(...)
TimelineEventsOf(citations) ==
    SelectSeq2(citations,
               {c \in {citations[i] : i \in 1..Len(citations)} :
                    c.date # "" /\ c.date # "Unknown"})

\* what the try branch of the web handleAnalyze leaves in timelineEvents
WebTimelineAfter(prevEvents, citations) ==
    IF Len(citations) > 0 THEN TimelineEventsOf(citations) ELSE prevEvents

\* onClick of a law of the list
WebSelectLaw(l) ==
    /\ client = "web"
    /\ selectedLaw' = l
    /\ analysis' = None
    /\ timelineEvents' = <<>>
    /\ analyzedFor' = NULL
    /\ lastEvent' = [type |-> "select", law |-> l]
    /\ UNCHANGED <<client, analysisState, isLoading, pending, issued>>
    /\ OutsideAnalysis

\* handleAnalyze up to its await (LawViewer disables its buttons while isAnalyzing)
WebHandleAnalyze ==
    /\ client = "web"
    /\ selectedLaw # NULL
    /\ ~isLoading
    /\ issued < MaxRequests
    /\ isLoading' = TRUE
    /\ pending' = pending \cup {[rid |-> issued + 1, law |-> selectedLaw]}
    /\ issued' = issued + 1
    /\ analyzedFor' = selectedLaw
    /\ lastEvent' = [type |-> "analyze", law |-> selectedLaw]
    /\ UNCHANGED <<client, selectedLaw, analysisState, analysis, timelineEvents>>
    /\ OutsideAnalysis

\* what the catch branch of the web handleAnalyze does to the analysis: nothing
\* (console.error only)
WebAnalyzeFailed(prevAnalysis, err) == prevAnalysis

\* handleAnalyze after its await: fetch rejected, !response.ok, json() rejected,
\* or a payload
WebAnalyzeSettles(r, out) ==
    /\ client = "web"
    /\ r \in pending
    /\ out \in Outcomes(r.law)
    /\ pending' = pending \ {r}
    /\ IF out.ok
       THEN /\ analysis' = Some([law |-> out.law, citations |-> out.citations])
            /\ timelineEvents' = WebTimelineAfter(timelineEvents, out.citations)
       ELSE /\ analysis' = WebAnalyzeFailed(analysis, out)
            /\ timelineEvents' = timelineEvents
    /\ isLoading' = FALSE
    /\ lastEvent' = [type |-> IF out.ok THEN "resolved" ELSE "rejected", law |-> r.law]
    /\ UNCHANGED <<client, selectedLaw, analysisState, issued, analyzedFor>>
    /\ OutsideAnalysis

(***************************************************************************)
(* Search: strings, the law corpus and the semantic-search collaborator    *)
(*                                                                         *)
(* Strings are TLA+ strings; Len, \o, Head, Tail and SubSeq apply to them. *)
(***************************************************************************)
\* The most semantic-search calls one behaviour issues.
MaxSearches == 2
\* The most scheduled searches pending at once.
MaxTimers == 2

UpperCaseLetters == "ABCDEFGHIJKLMNOPQRSTUVWXYZ"
LowerCaseLetters == "abcdefghijklmnopqrstuvwxyz"
CharsOf(s) == {SubSeq(s, i, i) : i \in 1..Len(s)}

\* the character of s at position i, "" past either end
At(s, i) == IF i \in 1..Len(s) THEN SubSeq(s, i, i) ELSE ""

\* the lower-case and the upper-case form of each letter
LowerCaseOf ==
    [c \in CharsOf(UpperCaseLetters) |->
        At(LowerCaseLetters,
           CHOOSE i \in 1..Len(UpperCaseLetters) : At(UpperCaseLetters, i) = c)]
UpperCaseOf ==
    [c \in CharsOf(LowerCaseLetters) |->
        At(UpperCaseLetters,
           CHOOSE i \in 1..Len(LowerCaseLetters) : At(LowerCaseLetters, i) = c)]

\* String.prototype.toLowerCase
RECURSIVE toLowerCase(_)
toLowerCase(s) ==
    IF s = "" THEN ""
    ELSE (IF Head(s) \in DOMAIN LowerCaseOf THEN LowerCaseOf[Head(s)] ELSE Head(s))
            \o toLowerCase(Tail(s))

\* String.prototype.toUpperCase
RECURSIVE toUpperCase(_)
toUpperCase(s) ==
    IF s = "" THEN ""
    ELSE (IF Head(s) \in DOMAIN UpperCaseOf THEN UpperCaseOf[Head(s)] ELSE Head(s))
            \o toUpperCase(Tail(s))

\* String.prototype.startsWith
startsWith(s, prefix) ==
    Len(prefix) <= Len(s) /\ SubSeq(s, 1, Len(prefix)) = prefix

\* String.prototype.includes
includes(s, q) ==
    \E i \in 0..(Len(s) - Len(q)) : SubSeq(s, i + 1, i + Len(q)) = q

\* the full law set both clients fetch (LawArticle fields; the web App calls
\* content text and statuteName law_name)
LAWS ==
    << [id |-> "CRIM-CODE-380", section |-> "380", title |-> "Fraud",
        content |-> "deceit", statuteName |-> "Code"],
       [id |-> "CRIM-CODE-322", section |-> "322", title |-> "Theft",
        content |-> "by fraud", statuteName |-> "Code"],
       [id |-> "IRPA-36", section |-> "36", title |-> "Entry",
        content |-> "visa", statuteName |-> "Fraud Act"] >>

\* the values the search input takes
Queries ==
    { "", "v", "ft", "38", "FRAUD", "Visa" }

\* the ids of a list of laws, in order: what a displayed list is compared by
IdsOf(list) == [i \in 1..Len(list) |-> list[i].id]

\* the ordered results the retrieval collaborator returns for a query (ids of
\* SearchResult entries; "IRPR-179" is a record outside the fetched law set)
ServerResults(q) ==
    CASE q = "FRAUD" -> <<"CRIM-CODE-380">>
      [] q = "Visa" -> <<"IRPA-36", "IRPR-179">>
      [] OTHER -> <<>>

(***************************************************************************)
(* LawLibrary (src/README.md 299-369), hosted by src/App.tsx               *)
(***************************************************************************)
\* a local filter that leaves law.section out of the match
LibraryFilteredLawsNoSection(term, ai) ==
    IF Len(term) > 0 /\ ~ai
    THEN SelectSeq(LAWS, LAMBDA law :
            \/ includes(toLowerCase(law.title), toLowerCase(term))
            \/ includes(toLowerCase(law.content), toLowerCase(term))
            \/ includes(toLowerCase(law.statuteName), toLowerCase(term)))
    ELSE IF Len(term) = 0 THEN LAWS ELSE <<>>

\* filteredLaws: "Local filtering for non-AI search"
LibraryFilteredLaws(term, ai) ==
    IF Len(term) > 0 /\ ~ai
    THEN SelectSeq(LAWS, LAMBDA law :
            \/ includes(toLowerCase(law.title), toLowerCase(term))
            \/ includes(law.section, term)
            \/ includes(toLowerCase(law.content), toLowerCase(term))
            \/ includes(toLowerCase(law.statuteName), toLowerCase(term)))
    ELSE IF Len(term) = 0 THEN LAWS ELSE <<>>

\* displayLaws: the search results when there are any, else filteredLaws
displayLaws ==
    IF searchResults # None
    THEN searchResults[1]
    ELSE IdsOf(LibraryFilteredLaws(searchTerm, useAISearch))

\* performAISearch(query): lodash debounce re-arms the timer of this debounced
\* function; the timers of functions made for an earlier useAISearch stay
performAISearch(ts, query, ai) ==
    SelectSeq(ts, LAMBDA t : ~t.current)
        \o <<[query |-> query, ai |-> ai, current |-> TRUE]>>

\* useCallback(debounce(...), [useAISearch]): a toggle makes a new debounced
\* function, and nothing cancels the timer of the old one
Superseded(ts) == [i \in 1..Len(ts) |-> [ts[i] EXCEPT !.current = FALSE]]

\* the effect "Trigger search when search term changes"
LibraryEffect(ts, term, ai) ==
    /\ IF ai /\ Len(term) >= 3
       THEN /\ timers' = performAISearch(ts, term, ai)
            /\ searchResults' = searchResults
       ELSE /\ timers' = ts
            /\ searchResults' = None
    /\ Len(timers') <= MaxTimers

OutsideSearch == UNCHANGED <<client, analysisVars, assistantVars, renderVars, timelineVars, responseVars>>

\* onChange of the search input
LibrarySetSearchTerm(q) ==
    /\ client = "app"
    /\ q # searchTerm
    /\ searchTerm' = q
    /\ LibraryEffect(timers, q, useAISearch)
    /\ lastSearch' = [type |-> "input", query |-> q]
    /\ UNCHANGED <<searchQuery, useAISearch, isSearching, filteredLaws,
                   searchCalls, issuedQueries>>
    /\ OutsideSearch

\* clearSearch (the button shows while searchTerm is non-empty)
LibraryClearSearch ==
    /\ client = "app"
    /\ searchTerm # ""
    /\ searchTerm' = ""
    /\ searchResults' = None
    /\ lastSearch' = [type |-> "clear", query |-> ""]
    /\ UNCHANGED <<searchQuery, useAISearch, isSearching, filteredLaws, timers,
                   searchCalls, issuedQueries>>
    /\ OutsideSearch

\* the AI toggle
LibraryToggleAI ==
    /\ client = "app"
    /\ useAISearch' = ~useAISearch
    /\ LibraryEffect(Superseded(timers), searchTerm, ~useAISearch)
    /\ lastSearch' = [type |-> "toggle", query |-> searchTerm]
    /\ UNCHANGED <<searchTerm, searchQuery, isSearching, filteredLaws,
                   searchCalls, issuedQueries>>
    /\ OutsideSearch

\* the debounced function runs, up to its await of searchLaws
LibraryTimerFires ==
    /\ client = "app"
    /\ timers # <<>>
    /\ Len(issuedQueries) < MaxSearches
    /\ timers' = Tail(timers)
    /\ lastSearch' = [type |-> "fired", query |-> Head(timers).query]
    /\ IF Len(Head(timers).query) < 3
       THEN /\ searchResults' = None
            /\ UNCHANGED <<isSearching, searchCalls, issuedQueries>>
       ELSE /\ isSearching' = TRUE
            /\ searchCalls' = searchCalls \cup
                  {[sid |-> Len(issuedQueries) + 1, query |-> Head(timers).query,
                    ai |-> Head(timers).ai]}
            /\ issuedQueries' = Append(issuedQueries, Head(timers).query)
            /\ searchResults' = searchResults
    /\ UNCHANGED <<searchTerm, searchQuery, useAISearch, filteredLaws>>
    /\ OutsideSearch

\* what the debounced function stores when searchLaws resolved / threw
LibrarySearchResolved(query) == Some(ServerResults(query))
LibrarySearchFailed(query) == None

\* the debounced function after its await
LibrarySearchSettles(c, outcome) ==
    /\ client = "app"
    /\ c \in searchCalls
    /\ outcome \in {"resolved", "threw"}
    /\ searchCalls' = searchCalls \ {c}
    /\ searchResults' = IF outcome = "resolved"
                        THEN LibrarySearchResolved(c.query)
                        ELSE LibrarySearchFailed(c.query)
    /\ isSearching' = FALSE
    /\ lastSearch' = [type |-> outcome, query |-> c.query]
    /\ UNCHANGED <<searchTerm, searchQuery, useAISearch, filteredLaws, timers,
                   issuedQueries>>
    /\ OutsideSearch

(***************************************************************************)
(* web App (src/unnamed/part_002): handleSearch and the debounce effect    *)
(***************************************************************************)
\* the "Local search" branch of handleSearch
WebLocalSearch(query) ==
    SelectSeq(LAWS, LAMBDA law :
        \/ includes(toLowerCase(law.title), toLowerCase(query))
        \/ includes(toLowerCase(law.content), toLowerCase(query))
        \/ (law.statuteName # ""
            /\ includes(toLowerCase(law.statuteName), toLowerCase(query))))

\* the "Fallback to local search" of the catch branch of handleSearch
WebFallbackSearch(query) ==
    SelectSeq(LAWS, LAMBDA law :
        \/ includes(toLowerCase(law.title), toLowerCase(query))
        \/ includes(toLowerCase(law.content), toLowerCase(query)))

\* the "Debounced search" effect: its cleanup clears the timer of the last run
DebouncedSearch(query, ai) == <<[query |-> query, ai |-> ai, current |-> TRUE]>>

\* onChange of the search input, and the clear button's setSearchQuery('')
WebSetSearchQuery(q) ==
    /\ client = "web"
    /\ q # searchQuery
    /\ searchQuery' = q
    /\ timers' = DebouncedSearch(q, useAISearch)
    /\ lastSearch' = [type |-> "input", query |-> q]
    /\ UNCHANGED <<searchTerm, useAISearch, isSearching, searchResults,
                   filteredLaws, searchCalls, issuedQueries>>
    /\ OutsideSearch

\* the AI toggle: handleSearch is made anew, so the effect runs again
WebToggleAI ==
    /\ client = "web"
    /\ useAISearch' = ~useAISearch
    /\ timers' = DebouncedSearch(searchQuery, ~useAISearch)
    /\ lastSearch' = [type |-> "toggle", query |-> searchQuery]
    /\ UNCHANGED <<searchTerm, searchQuery, isSearching, searchResults,
                   filteredLaws, searchCalls, issuedQueries>>
    /\ OutsideSearch

\* the timer fires: handleSearch(searchQuery) up to its await, if it has one
WebTimerFires ==
    /\ client = "web"
    /\ timers # <<>>
    /\ timers' = Tail(timers)
    /\ lastSearch' = [type |-> "fired", query |-> Head(timers).query]
    /\ IF Len(Head(timers).query) < 2
       THEN /\ filteredLaws' = IdsOf(LAWS)
            /\ UNCHANGED <<isSearching, searchCalls, issuedQueries>>
       ELSE IF Head(timers).ai /\ Len(Head(timers).query) >= 3
       THEN /\ Len(issuedQueries) < MaxSearches
            /\ isSearching' = TRUE
            /\ searchCalls' = searchCalls \cup
                  {[sid |-> Len(issuedQueries) + 1, query |-> Head(timers).query,
                    ai |-> TRUE]}
            /\ issuedQueries' = Append(issuedQueries, Head(timers).query)
            /\ filteredLaws' = filteredLaws
       ELSE /\ filteredLaws' = IdsOf(WebLocalSearch(Head(timers).query))
            /\ UNCHANGED <<isSearching, searchCalls, issuedQueries>>
    /\ UNCHANGED <<searchTerm, searchQuery, useAISearch, searchResults>>
    /\ OutsideSearch

\* handleSearch after its await: a payload, a response that is not ok, or a throw
WebSearchSettles(c, outcome) ==
    /\ client = "web"
    /\ c \in searchCalls
    /\ outcome \in {"resolved", "notok", "threw"}
    /\ searchCalls' = searchCalls \ {c}
    /\ filteredLaws' =
          CASE outcome = "resolved" -> ServerResults(c.query)
            [] outcome = "notok" -> filteredLaws
            [] outcome = "threw" -> IdsOf(WebFallbackSearch(c.query))
    /\ isSearching' = FALSE
    /\ lastSearch' = [type |-> outcome, query |-> c.query]
    /\ UNCHANGED <<searchTerm, searchQuery, useAISearch, searchResults, timers,
                   issuedQueries>>
    /\ OutsideSearch

(***************************************************************************)
(* LegalAssistant: renderMessageContent                                    *)
(* src/components/LegalAssistant.tsx (client "app") and                    *)
(* src/unnamed/part_004 (client "mvp")                                     *)
(***************************************************************************)
Digits == CharsOf("0123456789")
\* \s, on the white space the texts use
WhiteSpace == {" ", "\n"}

\* the character class [A-Z0-9-], without the i flag and with it
IdChars == CharsOf(UpperCaseLetters) \cup Digits \cup {"-"}
IdCharsIgnoreCase == IdChars \cup CharsOf(LowerCaseLetters)

\* String.prototype.trim
RECURSIVE trimStart(_)
trimStart(s) == IF At(s, 1) \in WhiteSpace THEN trimStart(Tail(s)) ELSE s
RECURSIVE trimEnd(_)
trimEnd(s) ==
    IF At(s, Len(s)) \in WhiteSpace THEN trimEnd(SubSeq(s, 1, Len(s) - 1)) ELSE s
trim(s) == trimEnd(trimStart(s))

\* a greedy class*: the first position from i on whose character is not in class
RECURSIVE SkipWhile(_, _, _)
SkipWhile(s, i, class) ==
    IF At(s, i) \in class THEN SkipWhile(s, i + 1, class) ELSE i

\* word matches at position i of s under the i flag
MatchesWordAt(s, i, word) ==
    \A k \in 1..Len(word) :
        toLowerCase(At(s, i + k - 1)) = toLowerCase(At(word, k))

\* the first of the alternatives whose index is in matching, "" if there is none
FirstOf(words, matching) ==
    IF matching = {} THEN ""
    ELSE words[CHOOSE k \in matching : \A j \in matching : k <= j]

\* the first of the alternatives that matches at position i, "" if none does
FirstWordAt(s, i, words) ==
    FirstOf(words, {k \in 1..Len(words) : MatchesWordAt(s, i, words[k])})

\* the bracket opened at i closes at j, after at least one character of the class
ClosedAt(s, i, j) == IF At(s, i) = "[" /\ j > i + 1 /\ At(s, j) = "]" THEN j ELSE 0

\* \[[A-Z0-9-]+\] at position i: the position of the closing bracket, 0 if no match
BracketTokenAt(s, i, ignoreCase) ==
    ClosedAt(s, i, SkipWhile(s, i + 1, IF ignoreCase THEN IdCharsIgnoreCase ELSE IdChars))

\* \s* from position i on
SkipSpace(s, i) == SkipWhile(s, i, WhiteSpace)

\* no section reference at the position
NoReference == [end |-> 0, section |-> "", code |-> ""]

\* a section reference whose number is s[d1..d3-1]; code is the law code found
\* at p2 by the optional group, "" when the group does not match
Reference(s, d1, d3, p2, code) ==
    [end |-> IF code = "" THEN d3 - 1 ELSE p2 + Len(code) - 1,
     section |-> SubSeq(s, d1, d3 - 1),
     code |-> IF code = "" THEN "" ELSE SubSeq(s, p2, p2 + Len(code) - 1)]

\* (?:of|de)\s*(IRPA|IRPR|CA|CR), prep being the preposition found at p1
LawCodeAfter(s, d1, d3, p1, prep) ==
    Reference(s, d1, d3, SkipSpace(s, p1 + Len(prep)),
              IF prep = "" THEN ""
              ELSE FirstWordAt(s, SkipSpace(s, p1 + Len(prep)),
                               <<"IRPA", "IRPR", "CA", "CR">>))

\* (?:\s*(?:of|de)\s*(IRPA|IRPR|CA|CR))? after the number that ends before d3
OptionalLawCode(s, d1, d3) ==
    LawCodeAfter(s, d1, d3, SkipSpace(s, d3),
                 FirstWordAt(s, SkipSpace(s, d3), <<"of", "de">>))

\* (?:\.\d+)? at position d2: where the number ends
FractionEnd(s, d2) ==
    IF At(s, d2) = "." /\ At(s, d2 + 1) \in Digits
    THEN SkipWhile(s, d2 + 1, Digits)
    ELSE d2

\* \d+(?:\.\d+)? at position d1, d2 being where the digits from d1 on end
NumberAt(s, d1, d2) ==
    IF d2 = d1 THEN NoReference ELSE OptionalLawCode(s, d1, FractionEnd(s, d2))

\* \s*(\d+(?:\.\d+)?)... after the keyword found at position i
AfterKeyword(s, i, keyword) ==
    IF keyword = "" THEN NoReference
    ELSE NumberAt(s, SkipSpace(s, i + Len(keyword)),
                  SkipWhile(s, SkipSpace(s, i + Len(keyword)), Digits))

\* (?:Section|Article|§)\s*(\d+(?:\.\d+)?)(?:\s*(?:of|de)\s*(IRPA|IRPR|CA|CR))? at
\* position i, under the i flag: where the match ends (0 if none) and its two groups.
\* The strings here are ASCII: the section sign is written "$".
SectionReferenceAt(s, i) ==
    AfterKeyword(s, i, FirstWordAt(s, i, <<"Section", "Article", "$">>))

\* where the token that starts at position i of s ends, 0 if none starts there:
\* the split pattern of LegalAssistant.tsx (flags gi, section references too)
\* or of part_004 (flag g, bracketed ids only)
TokenEndAt(s, i, sectionReferences) ==
    IF sectionReferences
    THEN IF BracketTokenAt(s, i, TRUE) > 0
         THEN BracketTokenAt(s, i, TRUE)
         ELSE SectionReferenceAt(s, i).end
    ELSE BracketTokenAt(s, i, FALSE)

\* every position of s where the pattern matches, with the end of the match
TokensOf(s, sectionReferences) ==
    {t \in {[start |-> i, end |-> TokenEndAt(s, i, sectionReferences)] : i \in 1..Len(s)} :
        t.end > 0}

\* the leftmost of a non-empty set of matches
Leftmost(tokens) == CHOOSE t \in tokens : \A u \in tokens : t.start <= u.start

\* String.prototype.split with one capturing group, from position start on,
\* tokens being the matches that start there or later: the text before the
\* leftmost match, the match, and so on after it; the text after the last
\* match closes the list
RECURSIVE SplitFrom(_, _, _)
SplitFrom(s, start, tokens) ==
    IF tokens = {} THEN <<SubSeq(s, start, Len(s))>>
    ELSE <<SubSeq(s, start, Leftmost(tokens).start - 1),
           SubSeq(s, Leftmost(tokens).start, Leftmost(tokens).end)>>
            \o SplitFrom(s, Leftmost(tokens).end + 1,
                         {t \in tokens : t.start > Leftmost(tokens).end})

\* part.match(/^\[([A-Z0-9-]+)\]$/)
idMatch(part) == part # "" /\ BracketTokenAt(part, 1, FALSE) = Len(part)

\* Array.prototype.find over the ids of the laws, given the ids that pass the
\* test: the first of the list that passes, else NULL
Find(ids, passing) ==
    IF \E k \in 1..Len(ids) : ids[k] \in passing
    THEN ids[CHOOSE k \in 1..Len(ids) :
                ids[k] \in passing /\ \A j \in 1..(k - 1) : ids[j] \notin passing]
    ELSE NULL

\* the ids of a list of laws, as a set
IdSet(ids) == {ids[k] : k \in 1..Len(ids)}

\* a span that drops its text
SpanDropped(part) == [kind |-> "span", part |-> part, label |-> "", law |-> NULL]

\* <span key={idx}>{part}</span>
Span(part) == [kind |-> "span", part |-> part, label |-> part, law |-> NULL]

\* the id matcher of LegalAssistant.tsx: l.id === lawId || l.id.includes(lawId)
IdMatches(id, lawId) == id = lawId \/ includes(id, lawId)

\* the candidate id with the code as written in the text
SearchIdAsWritten(sectionMatch) ==
    (IF sectionMatch.code = "" THEN "IRPA" ELSE sectionMatch.code)
        \o "-" \o sectionMatch.section

\* `${lawCode}-${section}` of a section match
SearchId(sectionMatch) ==
    (IF sectionMatch.code = "" THEN "IRPA" ELSE toUpperCase(sectionMatch.code))
        \o "-" \o sectionMatch.section

\* the law a section reference is bound to: the first whose id is searchId or
\* starts with it, NULL if none
BySection(known, searchId) ==
    Find(known, {id \in IdSet(known) : id = searchId \/ startsWith(id, searchId)})

\* if (law) return the amber button; else the span
SectionButton(part, law) ==
    IF law = NULL THEN Span(part)
    ELSE [kind |-> "sectionButton", part |-> part, label |-> part, law |-> law]

\* the section branch of the callback, matches being the section references
\* found in part: part.match takes the leftmost
SectionPart(part, known, matches) ==
    IF matches = {} THEN Span(part)
    ELSE SectionButton(part, BySection(known, SearchId(Leftmost(matches))))

\* the section references in part, each with where it starts
SectionMatches(part) ==
    {m \in {[start |-> i, end |-> SectionReferenceAt(part, i).end,
             section |-> SectionReferenceAt(part, i).section,
             code |-> SectionReferenceAt(part, i).code] : i \in 1..Len(part)} :
        m.end > 0}

\* the id branch of the callback, law being what laws.find returns for lawId;
\* a part that is no id, or whose id finds no law, goes on to the section branch
IdPart(part, known, lawId, law) ==
    IF idMatch(part) /\ law # NULL
    THEN [kind |-> "idButton", part |-> part, label |-> lawId, law |-> law]
    ELSE SectionPart(part, known, SectionMatches(part))

\* one element of parts.map(...) in LegalAssistant.tsx
RenderPart(part, known) ==
    IdPart(part, known, SubSeq(part, 2, Len(part) - 1),
           Find(known, {id \in IdSet(known) :
                           IdMatches(id, SubSeq(part, 2, Len(part) - 1))}))

\* the exact-id branch of part_004, law being what laws.find returns for lawId
MvpIdPart(part, lawId, law) ==
    IF idMatch(part) /\ law # NULL
    THEN [kind |-> "idButton", part |-> part, label |-> lawId, law |-> law]
    ELSE Span(part)

\* one element of parts.map(...) in part_004
MvpRenderPart(part, known) ==
    MvpIdPart(part, SubSeq(part, 2, Len(part) - 1),
              Find(known, {id \in IdSet(known) : id = SubSeq(part, 2, Len(part) - 1)}))

\* the parts of a rendered text, each as the element it becomes
RenderParts(parts) ==
    [k \in 1..Len(parts) |->
        IF client = "mvp" THEN MvpRenderPart(parts[k], laws)
        ELSE RenderPart(parts[k], laws)]

\* renderMessageContent of the client's LegalAssistant
renderMessageContent(content) ==
    RenderParts(SplitFrom(content, 1, TokensOf(content, client # "mvp")))

\* The most tokens one rendered text strings together.
MaxTokens == 2

\* bracketed ids and section references, whole and in pieces
TokenPieces ==
    { "[CRIM-CODE-229]", "[CODE-22]", "[crim-code-229]", "[SECTION36]",
      "[IRPA-36]", "Section 36", " of IRPA", "$ 36.1 de irpa" }

RECURSIVE Concat(_)
Concat(pieces) ==
    IF pieces = <<>> THEN "" ELSE Head(pieces) \o Concat(Tail(pieces))

\* the message texts rendered: up to MaxTokens pieces in a sentence frame
MessageTexts ==
    {pre \o Concat(run) \o post :
        pre \in {"", "See "}, post \in {"", " for details."},
        run \in UNION {[1..k -> TokenPieces] : k \in 0..MaxTokens}}

\* the law sets LegalAssistant.tsx is rendered with
KnownLawSets ==
    { <<"CRIM-CODE-229">>,
      <<"IRPA-36.1", "IRPA-36", "CRIM-CODE-229">>,
      <<"IRPA-36", "IRPA-36.1">> }

\* MOCK_LAWS, the law set of part_004's host
MOCK_LAWS == <<"CRIM-CODE-229", "CRIM-CODE-319", "CRIM-CODE-322", "CRIM-CODE-380">>

\* {renderMessageContent(msg.content)} in the message list
RenderMessage ==
    /\ client \in {"app", "mvp"}
    /\ rendered = None
    /\ rendered' = Some(renderMessageContent(msgContent))
    /\ UNCHANGED <<client, analysisVars, searchVars, assistantVars, msgContent, timelineVars, responseVars>>

\* The most scans of one message text: React calls renderMessageContent again
\* on every render of the message list.
MaxScans == 2

\* a later scan that resumes where the previous one stopped, as a pattern
\* object shared between the calls would
RenderAgainFromLastIndex ==
    /\ client \in {"app", "mvp"}
    /\ rendered # None
    /\ Len(rendered) < MaxScans
    /\ rendered' = Append(rendered, RenderParts(SplitFrom(msgContent, Len(msgContent) + 1, {})))
    /\ UNCHANGED <<client, analysisVars, searchVars, assistantVars, msgContent, timelineVars, responseVars>>

\* a later render of the same message list: the scan runs again on the same
\* text; rendered keeps the result of each scan in turn
RenderAgain ==
    /\ client \in {"app", "mvp"}
    /\ rendered # None
    /\ Len(rendered) < MaxScans
    /\ rendered' = Append(rendered, renderMessageContent(msgContent))
    /\ UNCHANGED <<client, analysisVars, searchVars, assistantVars, msgContent, timelineVars, responseVars>>

(***************************************************************************)
(* LegalAssistant: handleSend                                              *)
(***************************************************************************)
\* The most questions one behaviour sends.
MaxSends == 2

\* confidence is held in hundredths: the caveat goes with confidence < 0.5
LowConfidence == 50

\* the fixed texts (accents and the warning sign left out)
Greeting == "Bonjour ! Je suis l'assistant juridique LexOrigin."
MvpGreeting == "Hello. I am the LexOrigin Assistant."
Caveat ==
    "\n\nCette reponse est basee sur un contexte limite. Veuillez verifier les sources officielles."
QueryFailedText == "Je n'ai pas pu acceder a la base de donnees juridique."
MvpQueryFailedText == "I encountered an error accessing the legal database."

\* the texts typed into the input box
UserInputs == {"", "  ", " Is section 36 of IRPA in force? "}

\* the texts the generative service answers with
AnswerTexts ==
    { "See [CRIM-CODE-229] for details.",
      "Section 36 of IRPA applies.",
      "There is no such provision." }

\* what directQuery settles with: a DirectQueryResponse or a rejection
DirectQueryOutcomes ==
    {[ok |-> TRUE, answer |-> a, confidence |-> c] :
        a \in AnswerTexts, c \in {LowConfidence - 1, LowConfidence, LowConfidence + 1}}
    \cup {[ok |-> FALSE, answer |-> "", confidence |-> 0]}

\* what askLegalAssistant settles with: it catches its own failures
AskLegalAssistantOutcomes ==
    {[ok |-> TRUE, answer |-> a, confidence |-> 0] :
        a \in AnswerTexts \cup
              { "I apologize, I could not generate a response.",
                "I am currently unable to access the legal corpus. Please try again later." }}

OutsideAssistant == UNCHANGED <<client, analysisVars, searchVars, renderVars, timelineVars, responseVars>>

\* onChange of the input box
SetInput(v) ==
    /\ client \in {"app", "mvp"}
    /\ v # input
    /\ input' = v
    /\ UNCHANGED <<laws, messages, isTyping, asked>>
    /\ OutsideAssistant

\* a handleSend that does not test isTyping
HandleSendWhileTyping ==
    /\ client \in {"app", "mvp"}
    /\ trim(input) # ""
    /\ Len(messages) < 1 + 2 * MaxSends
    /\ input' = ""
    /\ messages' = Append(messages, [role |-> "user", content |-> trim(input)])
    /\ isTyping' = TRUE
    /\ asked' = Some(trim(input))
    /\ UNCHANGED laws
    /\ OutsideAssistant

\* handleSend up to its await; it returns at once on a blank input or while typing
HandleSend ==
    /\ client \in {"app", "mvp"}
    /\ ~(trim(input) = "" \/ isTyping)
    /\ Len(messages) < 1 + 2 * MaxSends
    /\ input' = ""
    /\ messages' = Append(messages, [role |-> "user", content |-> trim(input)])
    /\ isTyping' = TRUE
    /\ asked' = Some(trim(input))
    /\ UNCHANGED laws
    /\ OutsideAssistant

\* an AssistantMessage that adds the caveat whatever the confidence
AssistantMessageAlwaysCaveat(response) == response.answer \o Caveat

\* the content of the assistant message for a DirectQueryResponse
AssistantMessage(response) ==
    IF response.confidence < LowConfidence
    THEN response.answer \o Caveat
    ELSE response.answer

\* handleSend of LegalAssistant.tsx after its await
QuerySettles(out) ==
    /\ client = "app"
    /\ asked # None
    /\ out \in DirectQueryOutcomes
    /\ messages' = Append(messages,
          [role |-> "assistant",
           content |-> IF out.ok THEN AssistantMessage(out) ELSE QueryFailedText])
    /\ isTyping' = FALSE
    /\ asked' = None
    /\ UNCHANGED <<laws, input>>
    /\ OutsideAssistant

\* handleSend of part_004 after its await
MvpQuerySettles(out) ==
    /\ client = "mvp"
    /\ asked # None
    /\ out \in AskLegalAssistantOutcomes
    /\ messages' = Append(messages,
          [role |-> "assistant",
           content |-> IF out.ok THEN out.answer ELSE MvpQueryFailedText])
    /\ isTyping' = FALSE
    /\ asked' = None
    /\ UNCHANGED <<laws, input>>
    /\ OutsideAssistant

(***************************************************************************)
(* Timeline / InteractiveTimeline: parseDate                               *)
(*                                                                         *)
(* A Date is held as its time value: a number n of whole days from         *)
(* 1 January 1970, local time (the strings read here carry no time of day, *)
(* and the layout only uses ratios of differences), or NaN.                *)
(***************************************************************************)
\* a number of the language that is not NaN, and NaN
Number(n) == [nan |-> FALSE, n |-> n]
NaN == [nan |-> TRUE, n |-> 0]

\* the Date whose time value is NaN
InvalidDate == NaN

\* the largest time value a Date holds, in days (8.64e15 ms)
MaxDay == 100000000

\* DayFromYear of the language: the day number of 1 January of year y
DayFromYear(y) ==
    365 * (y - 1970) + ((y - 1969) \div 4) - ((y - 1901) \div 100) + ((y - 1601) \div 400)

InLeapYear(y) == (y % 4 = 0 /\ y % 100 # 0) \/ y % 400 = 0

\* the day within its year on which month mn (0 to 11) starts
MonthStart(mn, leap) ==
    <<0, 31, 59, 90, 120, 151, 181, 212, 243, 273, 304, 334, 365>>[mn + 1]
        + (IF leap /\ mn >= 2 THEN 1 ELSE 0)

\* TimeClip
TimeClip(t) == IF t > MaxDay \/ t < -MaxDay THEN NaN ELSE Number(t)

\* MakeDay for year ym, month mn (0 to 11) and day of the month date
MakeDay(ym, mn, date) == DayFromYear(ym) + MonthStart(mn, InLeapYear(ym)) + date - 1

\* new Date(year, month, date) with the full year already settled
DateOfFullYear(yr, month, date) ==
    TimeClip(MakeDay(yr + (month \div 12), month % 12, date))

\* new Date(year, month, date): a year from 0 to 99 stands for 1900 + year
NewDate(year, month, date) ==
    DateOfFullYear(IF year \in 0..99 THEN 1900 + year ELSE year, month, date)

\* Date.prototype.getFullYear, getMonth (0 to 11) and getDate of a valid Date
getFullYear(t) ==
    CHOOSE y \in (1969 + (t \div 366))..(1971 + (t \div 365)) \cup
                 (1969 + (t \div 365))..(1971 + (t \div 366)) :
        DayFromYear(y) <= t /\ t < DayFromYear(y + 1)

DayWithinYear(t, y) == t - DayFromYear(y)

MonthOfDay(day, leap) ==
    CHOOSE mn \in 0..11 : MonthStart(mn, leap) <= day /\ day < MonthStart(mn + 1, leap)

getMonth(t) == MonthOfDay(DayWithinYear(t, getFullYear(t)), InLeapYear(getFullYear(t)))

getDate(t) ==
    DayWithinYear(t, getFullYear(t))
        - MonthStart(getMonth(t), InLeapYear(getFullYear(t))) + 1

\* the months table of parseDate
Months ==
    <<"January", "February", "March", "April", "May", "June",
      "July", "August", "September", "October", "November", "December">>

\* \w
WordChars ==
    CharsOf(UpperCaseLetters) \cup CharsOf(LowerCaseLetters) \cup Digits \cup {"_"}

\* parseInt of a string of decimal digits
RECURSIVE parseInt(_)
parseInt(s) ==
    IF s = "" THEN 0
    ELSE 10 * parseInt(SubSeq(s, 1, Len(s) - 1))
            + (CHOOSE n \in 0..9 : At("0123456789", n + 1) = At(s, Len(s)))

\* class+ from position i on: the position after the run, 0 if the run is
\* empty or the match has already failed (i = 0)
Run(s, i, class) ==
    IF i = 0 \/ At(s, i) \notin class THEN 0 ELSE SkipWhile(s, i, class)

\* ,? at position i
OptionalComma(s, i) == IF i > 0 /\ At(s, i) = "," THEN i + 1 ELSE i

\* /(\w+),?\s+(\w+)\s+(\d+),?\s+(\d{4})/ tried at position i: where each
\* piece starts or ends, 0 once the match has failed
MonthStartsAt(s, i) == Run(s, OptionalComma(s, Run(s, i, WordChars)), WhiteSpace)
MonthEndsAt(s, i) == Run(s, MonthStartsAt(s, i), WordChars)
DayStartsAt(s, i) == Run(s, MonthEndsAt(s, i), WhiteSpace)
DayEndsAt(s, i) == Run(s, DayStartsAt(s, i), Digits)
YearStartsAt(s, i) == Run(s, OptionalComma(s, DayEndsAt(s, i)), WhiteSpace)

\* \d{n} at position i
DigitsAt(s, i, n) == i > 0 /\ \A k \in 0..(n - 1) : At(s, i + k) \in Digits

longFormatAt(s, i) == DigitsAt(s, YearStartsAt(s, i), 4)

\* /(\d{4})-(\d{2})-(\d{2})/ tried at position i
isoFormatAt(s, i) ==
    /\ DigitsAt(s, i, 4) /\ At(s, i + 4) = "-"
    /\ DigitsAt(s, i + 5, 2) /\ At(s, i + 7) = "-"
    /\ DigitsAt(s, i + 8, 2)

\* the least element of a non-empty set of positions
First(ps) == CHOOSE i \in ps : \A j \in ps : i <= j

\* the Date the long format gives when it matches at position i and the month
\* table has the second word at index mx (months[longFormat[2]] is mx - 1)
LongDate(s, i, mx) ==
    NewDate(parseInt(SubSeq(s, YearStartsAt(s, i), YearStartsAt(s, i) + 3)),
            mx - 1,
            parseInt(SubSeq(s, DayStartsAt(s, i), DayEndsAt(s, i) - 1)))

\* the Date the ISO format gives when it matches at position i
IsoDate(s, i) ==
    NewDate(parseInt(SubSeq(s, i, i + 3)),
            parseInt(SubSeq(s, i + 5, i + 6)) - 1,
            parseInt(SubSeq(s, i + 8, i + 9)))

\* the last two steps of parseDate: the ISO format at the positions in iso
\* where it matches, else native, what new Date(dateStr) gives, unless invalid
IsoOrNative(s, iso, native) ==
    IF iso # {} THEN Some(IsoDate(s, First(iso)))
    ELSE IF ~native.nan THEN Some(native)
    ELSE None

\* the index in the months table of the month word of the long format
\* matching at position i, as a set: empty when the table has no such key
MonthIndex(s, i) ==
    {mx \in 1..12 : Months[mx] = SubSeq(s, MonthStartsAt(s, i), MonthEndsAt(s, i) - 1)}

\* the first step of parseDate: the long format at the positions in long
\* where it matches, if the month is in the table
LongOrLater(s, long, native) ==
    IF long # {} /\ MonthIndex(s, First(long)) # {}
    THEN Some(LongDate(s, First(long), First(MonthIndex(s, First(long)))))
    ELSE IsoOrNative(s, {i \in 1..Len(s) : isoFormatAt(s, i)}, native)

\* parseDate; native is what new Date(dateStr) gives for the string; the
\* result is None for null and Some(date) for a Date
parseDate(dateStr, native) ==
    IF dateStr = "" \/ dateStr = "Unknown" THEN None
    ELSE LongOrLater(dateStr, {i \in 1..Len(dateStr) : longFormatAt(dateStr, i)}, native)

(***************************************************************************)
(* Timeline / InteractiveTimeline: the layout                              *)
(***************************************************************************)
\* The most quotes or events one timeline is given.
MaxEvents == 3

\* decimal digits of a natural number, and the same padded with zeros
RECURSIVE Decimal(_)
Decimal(n) ==
    IF n < 10 THEN At("0123456789", n + 1)
    ELSE Decimal(n \div 10) \o At("0123456789", (n % 10) + 1)

Padded(n, width) ==
    SubSeq("0000", 1, width - Len(Decimal(n))) \o Decimal(n)

WeekDays ==
    <<"Sunday", "Monday", "Tuesday", "Wednesday", "Thursday", "Friday", "Saturday">>

\* "Wednesday, June 21, 2023": the long form of the calendar date d = <<year, month, day>>
LongForm(d) ==
    WeekDays[((MakeDay(d[1], d[2] - 1, d[3]) + 4) % 7) + 1] \o ", "
        \o Months[d[2]] \o " " \o Decimal(d[3]) \o ", " \o Padded(d[1], 4)

\* "2023-06-21": the ISO-like form of the calendar date d
IsoForm(d) == Padded(d[1], 4) \o "-" \o Padded(d[2], 2) \o "-" \o Padded(d[3], 2)

\* calendar dates: a sitting day, a leap day, a last day of a year, a day of the year 50
CalendarDates == {<<2023, 6, 21>>, <<2024, 2, 29>>, <<1999, 12, 31>>, <<50, 3, 1>>}

\* the date strings a quote or an event carries
DateStrings ==
    {LongForm(d) : d \in {c \in CalendarDates : c[1] >= 1000}}
        \cup {IsoForm(d) : d \in CalendarDates}
        \cup {"", "Unknown", "n/a", "June 2023", "Monday, June 100000000, 2023",
              "Wednesday, Jun 21, 2023", "Wednesday, Juin 21, 2023 (2023-06-21)"}

\* what new Date(dateStr) gives for a string in neither format: the outcome
\* is the engine's choice for "June 2023" and "Wednesday, Jun 21, 2023", and
\* invalid for the others
NativeDates(s) ==
    IF s = "June 2023" THEN {NewDate(2023, 5, 1), InvalidDate}
    ELSE IF s = "Wednesday, Jun 21, 2023" THEN {NewDate(2023, 5, 21), InvalidDate}
    ELSE {InvalidDate}

\* Date.prototype.getTime, and the arithmetic of the layout on its values
getTime(date) == date
Minus(a, b) == IF a.nan \/ b.nan THEN NaN ELSE Number(a.n - b.n)

\* endDate - startDate || 1
RangeOf(difference) == IF difference.nan \/ difference.n = 0 THEN 1 ELSE difference.n

\* 5 + (elapsed / range) * 90 as the fraction num / den, NaN if elapsed is
Percent(elapsed, range) ==
    IF elapsed.nan THEN [nan |-> TRUE, num |-> 0, den |-> 1]
    ELSE [nan |-> FALSE, num |-> 5 * range + 90 * elapsed.n, den |-> range]

\* the position of a node among count nodes
positionPercent(count, time, startDate, range) ==
    IF count = 1 THEN [nan |-> FALSE, num |-> 50, den |-> 1]
    ELSE Percent(Minus(time, startDate), range)

\* a filter that keeps a dated event only if it is the first of the input
DatedAndFirst(q) == q.parsedDate # None /\ q.event = 1

\* .map(parseDate).filter(parsedDate !== null), each with its index in the input
Dated(q) == q.parsedDate # None
WithDates(dates) ==
    SelectSeq([k \in 1..Len(dates) |-> [event |-> k, parsedDate |-> dates[k]]], Dated)

\* a goes before b under the comparator, ties in the order of the input
Before(a, b) ==
    \/ a.parsedDate[1].n < b.parsedDate[1].n
    \/ a.parsedDate[1].n = b.parsedDate[1].n /\ a.event < b.event

\* the list in the order of a permutation of its indexes
Reordered(list, order) == [k \in 1..Len(list) |-> list[order[k]]]

\* the permutations of the indexes of a list
IndexOrders(list) ==
    {order \in [1..Len(list) -> 1..Len(list)] :
        \A i, j \in 1..Len(list) : order[i] = order[j] => i = j}

\* Array.prototype.sort under the comparator a.time - b.time: a stable
\* ascending sort, and an order of the engine's choice once a time value is
\* NaN (the comparator is then not consistent)
SortOrders(list) ==
    IF \E k \in 1..Len(list) : list[k].parsedDate[1].nan
    THEN IndexOrders(list)
    ELSE {order \in IndexOrders(list) :
            \A i \in 1..(Len(list) - 1) :
                Before(list[order[i]], list[order[i + 1]])}

\* the nodes drawn for the sorted list, given its first and its last time value
Nodes(sorted, startDate, endDate) ==
    [k \in 1..Len(sorted) |->
        [event |-> sorted[k].event,
         parsedDate |-> sorted[k].parsedDate[1],
         positionPercent |->
            positionPercent(Len(sorted), getTime(sorted[k].parsedDate[1]), startDate,
                            RangeOf(Minus(endDate, startDate)))]]

\* the body of the component after the sort: nothing when no date parsed
LayOut(sorted) ==
    IF Len(sorted) = 0 THEN <<>>
    ELSE Nodes(sorted, getTime(sorted[1].parsedDate[1]),
               getTime(sorted[Len(sorted)].parsedDate[1]))

\* the base line of the timeline is drawn unless the component returned early
BaseLine(sorted) == Len(sorted) # 0

\* the outcomes new Date(dateStr) has over all the strings
NativeOutcomes == UNION {NativeDates(s) : s \in DateStrings}

\* parseDate over the date strings, for each outcome of the native parse
ParsedDateOf ==
    [s \in DateStrings |-> [native \in NativeOutcomes |-> parseDate(s, native)]]

\* the dates parseDate gives for the events under one choice of the native parses
ParsedWith(natives) == [k \in 1..Len(events) |-> ParsedDateOf[events[k]][natives[k]]]

\* one render of Timeline (app) or InteractiveTimeline (web)
RenderTimeline ==
    /\ client \in {"app", "web"}
    /\ parsedDates = None
    /\ \E natives \in [1..Len(events) -> NativeOutcomes] :
          /\ \A k \in 1..Len(events) : natives[k] \in NativeDates(events[k])
          /\ parsedDates' = Some(ParsedWith(natives))
          /\ \E order \in SortOrders(WithDates(ParsedWith(natives))) :
                positions' = Some(LayOut(Reordered(WithDates(ParsedWith(natives)), order)))
    /\ UNCHANGED <<client, analysisVars, searchVars, assistantVars, renderVars, events,
                   responseVars>>

(***************************************************************************)
(* The analysis response, field by field: what the service put out, what   *)
(* each client stores of it and what its panel makes of the stored state   *)
(***************************************************************************)
\* consensus_color: 'red' | 'yellow' | 'green' | 'gray'
ConsensusColors == {"red", "yellow", "green", "gray"}

\* field || fallback, for a field that may be absent
OrElse(field, fallback) == IF field = None THEN fallback ELSE field[1]

\* an output that is no object has no field
NoFields ==
    [summary |-> None, consensus_color |-> None, citations |-> None,
     key_arguments |-> None]

\* The objects the service may put out for law l: each field present or
\* absent, the colour inside the enumeration or outside it ("blue").  The
\* field summary stands for summary (backend) and synthesis (Gemini).
ObjectOutputs(l) ==
    {[kind |-> "object",
      fields |-> [summary |-> s, consensus_color |-> c, citations |-> q,
                  key_arguments |-> k]] :
        s \in {None, Some("text")},
        c \in {None, Some("red"), Some("gray"), Some("blue")},
        q \in {None, Some(<<>>), Some(<<[law |-> l, date |-> "2001-05-01"]>>)},
        k \in {None, Some(<<"argument">>)}}

\* What the analysis service may put out: an object, text that is not JSON,
\* nothing at all, or a refusal (HTTP status not ok, API error).
ServiceOutputs(l) ==
    ObjectOutputs(l)
    \cup {[kind |-> k, fields |-> NoFields] : k \in {"malformed", "none", "refused"}}

\* analyzeIntent: throws on a status that is not ok; response.json() rejects
\* with a SyntaxError on a body that is empty or not JSON
analyzeIntent(out) ==
    [ok |-> out.kind = "object",
     message |-> IF out.kind = "refused" THEN "Failed to analyze intent"
                 ELSE IF out.kind = "none" THEN "Unexpected end of JSON input"
                 ELSE IF out.kind = "malformed" THEN "Unexpected token"
                 ELSE "",
     fields |-> out.fields]

\* an analyzeLegislativeIntent that resolves whatever the text was
analyzeLegislativeIntentLenient(out) ==
    [ok |-> TRUE, message |-> "", fields |-> out.fields]

\* analyzeLegislativeIntent: rethrows the API error, "No response generated"
\* for an empty text and the SyntaxError of JSON.parse; else the parsed object
analyzeLegislativeIntent(out) ==
    [ok |-> out.kind = "object",
     message |-> IF out.kind = "refused" THEN "API error"
                 ELSE IF out.kind = "none" THEN "No response generated"
                 ELSE IF out.kind = "malformed" THEN "Unexpected token"
                 ELSE "",
     fields |-> out.fields]

\* the web handleAnalyze: throws 'Analysis failed' on a status that is not ok;
\* response.json() rejects as in analyzeIntent
WebFetched(out) ==
    [ok |-> out.kind = "object",
     message |-> IF out.kind = "refused" THEN "Analysis failed"
                 ELSE IF out.kind = "none" THEN "Unexpected end of JSON input"
                 ELSE IF out.kind = "malformed" THEN "Unexpected token"
                 ELSE "",
     fields |-> out.fields]

\* the data object of convertAnalysis
ConvertedData(apiResponse) ==
    [synthesis |-> apiResponse.summary,
     consensus_color |-> apiResponse.consensus_color,
     key_arguments |-> Some(OrElse(apiResponse.key_arguments, <<>>))]

\* the quotes of convertAnalysis: (apiResponse.citations || []).map(...)
ConvertedQuotes(l, apiResponse) ==
    convertAnalysis([law |-> l,
                     citations |-> OrElse(apiResponse.citations, <<>>)]).quotes

\* JSON.parse(responseText) as AnalysisResponse: the object as it came
ParsedResult(fields) ==
    [synthesis |-> fields.summary,
     consensus_color |-> fields.consensus_color,
     key_arguments |-> fields.key_arguments]

\* AnalysisPanel: which of its four returns it takes (no access of it throws)
AnalysisPanel(state) ==
    IF state.isLoading THEN "loading"
    ELSE IF state.error \notin {NULL, ""} THEN "error"
    ELSE IF state.data = None THEN "placeholder"
    ELSE "result"

\* IntentPanel: which of its returns it takes; analysis.summary.length and
\* analysis.citations.length throw a TypeError on an absent field
IntentPanel(shown, loading) ==
    IF loading THEN "loading"
    ELSE IF shown = None THEN "placeholder"
    ELSE IF shown[1].summary = None THEN "threw"
    ELSE IF shown[1].citations = None THEN "threw"
    ELSE "result"

\* the frame of the response actions outside the analysis variables
OutsideResponse ==
    UNCHANGED <<client, searchVars, assistantVars, renderVars, timelineVars>>

\* src/App.tsx handleAnalyze after its await, on the output the call ended with
AppResponseSettles(r, out) ==
    /\ client = "app"
    /\ r \in pending
    /\ pending' = pending \ {r}
    /\ analysisState' =
          IF analyzeIntent(out).ok
          THEN AnalyzeSucceeded(analysisState, ConvertedData(out.fields),
                                ConvertedQuotes(r.law, out.fields))
          ELSE AnalyzeFailed(analysisState, analyzeIntent(out))
    /\ serviceOutput' = Some(out)
    /\ lastEvent' = [type |-> IF analyzeIntent(out).ok THEN "resolved" ELSE "rejected",
                     law |-> r.law]
    /\ UNCHANGED <<selectedLaw, issued, analyzedFor, analysis, isLoading,
                   timelineEvents, panel>>
    /\ OutsideResponse

\* the mvp handleAnalyze after its await
MvpResponseSettles(r, out) ==
    /\ client = "mvp"
    /\ r \in pending
    /\ pending' = pending \ {r}
    /\ analysisState' =
          IF analyzeLegislativeIntent(out).ok
          THEN AnalyzeSucceeded(analysisState, ParsedResult(out.fields),
                                relatedDebates(r.law))
          ELSE AnalyzeFailed(analysisState, analyzeLegislativeIntent(out))
    /\ serviceOutput' = Some(out)
    /\ lastEvent' = [type |-> IF analyzeLegislativeIntent(out).ok
                              THEN "resolved" ELSE "rejected",
                     law |-> r.law]
    /\ UNCHANGED <<selectedLaw, issued, analyzedFor, analysis, isLoading,
                   timelineEvents, panel>>
    /\ OutsideResponse

\* the web handleAnalyze after its await: setAnalysis(data) and the timeline,
\* or console.error; isLoading is reset in either case
WebResponseSettles(r, out) ==
    /\ client = "web"
    /\ r \in pending
    /\ pending' = pending \ {r}
    /\ analysis' = IF WebFetched(out).ok THEN Some(out.fields)
                   ELSE WebAnalyzeFailed(analysis, WebFetched(out))
    /\ timelineEvents' =
          IF WebFetched(out).ok
          THEN WebTimelineAfter(timelineEvents, OrElse(out.fields.citations, <<>>))
          ELSE timelineEvents
    /\ isLoading' = FALSE
    /\ serviceOutput' = Some(out)
    /\ lastEvent' = [type |-> IF WebFetched(out).ok THEN "resolved" ELSE "rejected",
                     law |-> r.law]
    /\ UNCHANGED <<selectedLaw, issued, analyzedFor, analysisState, panel>>
    /\ OutsideResponse

\* what the panel of this client returns for the state as it is
PanelNow ==
    IF client = "web" THEN IntentPanel(analysis, isLoading)
    ELSE AnalysisPanel(analysisState)

\* React renders the panel after a state update
RenderPanel ==
    /\ panel # PanelNow
    /\ panel' = PanelNow
    /\ UNCHANGED <<analysisVars, serviceOutput>>
    /\ OutsideResponse

(***************************************************************************)
(* Initial values of each subsystem                                        *)
(***************************************************************************)
AnalysisAtRest ==
    /\ selectedLaw = IF client = "app" THEN NULL ELSE "CRIM-CODE-229"
    /\ analysisState = InitialAnalysisState
    /\ analysis = None
    /\ isLoading = FALSE
    /\ timelineEvents = <<>>
    /\ pending = {}
    /\ issued = 0
    /\ analyzedFor = NULL
    /\ lastEvent = [type |-> "init", law |-> NULL]

\* LawLibrary: nothing scheduled; web: the effect's first run has scheduled
\* handleSearch('') and the fetch of the laws has filled filteredLaws
SearchAtRest ==
    /\ searchTerm = ""
    /\ searchQuery = ""
    /\ useAISearch = TRUE
    /\ isSearching = FALSE
    /\ searchResults = None
    /\ filteredLaws = IdsOf(LAWS)
    /\ timers = IF client = "web" THEN DebouncedSearch("", TRUE) ELSE <<>>
    /\ searchCalls = {}
    /\ issuedQueries = <<>>
    /\ lastSearch = [type |-> "init", query |-> ""]

\* LegalAssistant after construction, under the law set it is given
AssistantAtRest ==
    /\ messages = <<[role |-> "assistant",
                     content |-> IF client = "mvp" THEN MvpGreeting ELSE Greeting]>>
    /\ input = ""
    /\ isTyping = FALSE
    /\ asked = None

\* nothing handed to renderMessageContent yet
RenderAtRest ==
    /\ msgContent = ""
    /\ rendered = None

\* no timeline drawn: no quotes, no events
TimelineAtRest ==
    /\ events = <<>>
    /\ parsedDates = None
    /\ positions = None

\* no call settled yet; the panel shows its placeholder
ResponseAtRest ==
    /\ serviceOutput = None
    /\ panel = "placeholder"

(***************************************************************************)
(* Specification of the analysis pipeline                                  *)
(***************************************************************************)
InitAnalysis ==
    /\ client \in AnalysisClients
    /\ AnalysisAtRest
    /\ SearchAtRest
    /\ AssistantAtRest
    /\ RenderAtRest
    /\ TimelineAtRest
    /\ ResponseAtRest
    /\ laws = MOCK_LAWS

NextAnalysis ==
    \/ \E l \in LawIds : HandleLawSelect(l)
    \/ HandleAnalyze
    \/ \E r \in pending : \E out \in Outcomes(r.law) : AnalyzeSettles(r, out)
    \/ MvpHandleAnalyze
    \/ \E r \in pending : \E out \in GeminiOutcomes(r.law) : MvpAnalyzeSettles(r, out)
    \/ \E l \in LawIds : WebSelectLaw(l)
    \/ WebHandleAnalyze
    \/ \E r \in pending : \E out \in Outcomes(r.law) : WebAnalyzeSettles(r, out)

SpecAnalysis == InitAnalysis /\ [][NextAnalysis]_vars

(***************************************************************************)
(* Specification of the search controllers                                 *)
(***************************************************************************)
SearchClients == {"app", "web"}

InitSearch ==
    /\ client \in SearchClients
    /\ AnalysisAtRest
    /\ SearchAtRest
    /\ AssistantAtRest
    /\ RenderAtRest
    /\ TimelineAtRest
    /\ ResponseAtRest
    /\ laws = MOCK_LAWS

NextSearch ==
    \/ \E q \in Queries : LibrarySetSearchTerm(q)
    \/ LibraryClearSearch
    \/ LibraryToggleAI
    \/ LibraryTimerFires
    \/ \E c \in searchCalls : \E o \in {"resolved", "threw"} :
          LibrarySearchSettles(c, o)
    \/ \E q \in Queries : WebSetSearchQuery(q)
    \/ WebToggleAI
    \/ WebTimerFires
    \/ \E c \in searchCalls : \E o \in {"resolved", "notok", "threw"} :
          WebSearchSettles(c, o)

SpecSearch == InitSearch /\ [][NextSearch]_vars

\* the settling of the analysis call with request id n
SettlesRequest(n) ==
    \E r \in pending :
        /\ r.rid = n
        /\ \/ \E out \in Outcomes(r.law) : AnalyzeSettles(r, out)
           \/ \E out \in GeminiOutcomes(r.law) : MvpAnalyzeSettles(r, out)
           \/ \E out \in Outcomes(r.law) : WebAnalyzeSettles(r, out)

\* Every analysis call issued resolves or rejects (the transport ends every call).
FairAnalysis ==
    SpecAnalysis /\ \A n \in 1..MaxRequests : WF_vars(SettlesRequest(n))

(***************************************************************************)
(* Views of the client state used by the properties                        *)
(***************************************************************************)
\* the loading flag the running client shows
Loading == IF client = "web" THEN isLoading ELSE analysisState.isLoading

\* the laws whose analysis results the running client shows
ShownLaws ==
    IF client = "web"
    THEN {analysis[i].law : i \in 1..Len(analysis)}
         \cup {timelineEvents[i].law : i \in 1..Len(timelineEvents)}
    ELSE {analysisState.data[i].law : i \in 1..Len(analysisState.data)}
         \cup {analysisState.relatedQuotes[i].law :
                  i \in 1..Len(analysisState.relatedQuotes)}

\* result data, related quotes / timeline events and error message
ShownAnalysis ==
    IF client = "web"
    THEN <<analysis, timelineEvents>>
    ELSE <<analysisState.data, analysisState.relatedQuotes, analysisState.error>>

\* the error value held in the client state: analysisState.error, and for the web
\* App, whose state has no error field, an error stored in the analysis slot
ErrorValue ==
    IF client = "web"
    THEN IF analysis # None /\ "message" \in DOMAIN analysis[1]
         THEN analysis[1].message
         ELSE NULL
    ELSE analysisState.error

(***************************************************************************)
(* Properties of the analysis pipeline                                     *)
(***************************************************************************)

\* C1: in src/App.tsx, once handleAnalyze has been started for the law selected
\* now, analysisState.data and analysisState.relatedQuotes hold no result of
\* another law, whatever order the responses of earlier requests arrive in.
C1_OnlySelectedLawShown ==
    (client = "app" /\ selectedLaw # NULL /\ analyzedFor = selectedLaw)
        => ShownLaws \subseteq {selectedLaw}

\* C2: when the only analysis request in flight was made for a law that is no
\* longer the selected one, its completion (result or failure) leaves result
\* data, related quotes / timeline events and error message as they were.
C2_StaleCompletionDiscarded ==
    [][(/\ client \in {"app", "web"}
        /\ Cardinality(pending) = 1
        /\ pending' = {}
        /\ \A r \in pending : r.law # selectedLaw)
       => ShownAnalysis' = ShownAnalysis]_vars

\* C3: whenever no analysis request is outstanding the loading flag is false,
\* and every request in flight leads to a state in which it has settled and
\* the loading flag is false, whatever selections and requests interleave.
C3_LoadingClears ==
    /\ [](pending = {} => ~Loading)
    /\ \A n \in 1..MaxRequests :
          (\E r \in pending : r.rid = n)
              ~> ((\A r \in pending : r.rid # n) /\ ~Loading)

\* C3 witness: a second request has failed after a selection in between, nothing
\* is outstanding and the loading flag is false.
C3_Witness ==
    /\ lastEvent.type = "rejected"
    /\ issued >= 2
    /\ pending = {}
    /\ ~Loading

\* C4: in every client variant, after handleAnalyze ended in its failure branch
\* the client state holds a non-null error value.
C4_FailureHeldAsError ==
    lastEvent.type = "rejected" => ErrorValue # NULL

(***************************************************************************)
(* Specification of the assistant                                          *)
(***************************************************************************)
AssistantClients == {"app", "mvp"}

\* the law sets a client's LegalAssistant is given
LawSetsOf(c) == IF c = "mvp" THEN {MOCK_LAWS} ELSE KnownLawSets

InitAssistant ==
    /\ client \in AssistantClients
    /\ laws \in LawSetsOf(client)
    /\ AnalysisAtRest
    /\ SearchAtRest
    /\ AssistantAtRest
    /\ RenderAtRest
    /\ TimelineAtRest
    /\ ResponseAtRest

NextAssistant ==
    \/ \E v \in UserInputs : SetInput(v)
    \/ HandleSend
    \/ \E out \in DirectQueryOutcomes : QuerySettles(out)
    \/ \E out \in AskLegalAssistantOutcomes : MvpQuerySettles(out)

SpecAssistant == InitAssistant /\ [][NextAssistant]_vars

\* Every query awaited by handleSend resolves or rejects (the transport ends
\* every call), and the continuation of handleSend then runs.
FairAssistant ==
    /\ SpecAssistant
    /\ WF_vars(\E out \in DirectQueryOutcomes : QuerySettles(out))
    /\ WF_vars(\E out \in AskLegalAssistantOutcomes : MvpQuerySettles(out))

(***************************************************************************)
(* Specification of the analysis response: the three clients, from the     *)
(* click to the panel.  Each state update is rendered before the next      *)
(* event; an exception thrown by a render leaves nothing mounted, so no    *)
(* handler runs after it.                                                  *)
(***************************************************************************)
InitResponse ==
    /\ client \in AnalysisClients
    /\ AnalysisAtRest
    /\ SearchAtRest
    /\ AssistantAtRest
    /\ RenderAtRest
    /\ TimelineAtRest
    /\ ResponseAtRest
    /\ laws = MOCK_LAWS

\* the panel has rendered the state as it is, and the render did not throw:
\* React renders before the next event is handled
Mounted == panel = PanelNow /\ panel # "threw"

NextResponse ==
    \/ \E l \in LawIds : Mounted /\ HandleLawSelect(l)
    \/ Mounted /\ HandleAnalyze
    \/ \E r \in pending : \E out \in ServiceOutputs(r.law) :
          Mounted /\ AppResponseSettles(r, out)
    \/ Mounted /\ MvpHandleAnalyze
    \/ \E r \in pending : \E out \in ServiceOutputs(r.law) :
          Mounted /\ MvpResponseSettles(r, out)
    \/ \E l \in LawIds : Mounted /\ WebSelectLaw(l)
    \/ Mounted /\ WebHandleAnalyze
    \/ \E r \in pending : \E out \in ServiceOutputs(r.law) :
          Mounted /\ WebResponseSettles(r, out)
    \/ RenderPanel

SpecResponse == InitResponse /\ [][NextResponse]_vars

(***************************************************************************)
(* Specification of the timeline: one render of one list of dates          *)
(***************************************************************************)
TimelineClients == {"app", "web"}

InitTimeline ==
    /\ client \in TimelineClients
    /\ events \in UNION {[1..n -> DateStrings] : n \in 0..MaxEvents}
    /\ parsedDates = None
    /\ positions = None
    /\ laws = MOCK_LAWS
    /\ AnalysisAtRest
    /\ SearchAtRest
    /\ AssistantAtRest
    /\ RenderAtRest
    /\ ResponseAtRest

NextTimeline == RenderTimeline

SpecTimeline == InitTimeline /\ [][NextTimeline]_vars

(***************************************************************************)
(* Specification of renderMessageContent: one call on one message text     *)
(***************************************************************************)
InitRender ==
    /\ client \in AssistantClients
    /\ laws \in LawSetsOf(client)
    /\ msgContent \in MessageTexts
    /\ rendered = None
    /\ AnalysisAtRest
    /\ SearchAtRest
    /\ AssistantAtRest
    /\ TimelineAtRest
    /\ ResponseAtRest

NextRender == RenderMessage \/ RenderAgain

SpecRender == InitRender /\ [][NextRender]_vars

(***************************************************************************)
(* Search: what the user sees                                              *)
(***************************************************************************)
\* the list on screen: LawLibrary renders displayLaws, the web App filteredLaws
Displayed == IF client = "web" THEN filteredLaws ELSE displayLaws

\* the value of the search input
CurrentInput == IF client = "web" THEN searchQuery ELSE searchTerm

\* C5: when a semantic search for the query now in the input threw, the list
\* displayed once the failure is handled is the local substring-filter result
\* for that query (title, content or statute name, case-insensitive).
C5_ThrownSearchFallsBackToLocal ==
    (/\ lastSearch.type = "threw"
     /\ useAISearch
     /\ CurrentInput = lastSearch.query)
        => Displayed = IdsOf(WebLocalSearch(lastSearch.query))

\* C6: in semantic mode a non-empty query shorter than 3 characters shows the
\* local substring-filter result for that query: in LawLibrary as soon as the
\* input holds it, in the web App once the scheduled search has fired for it.
C6_BelowThresholdDegradesToLocal ==
    (/\ useAISearch
     /\ Len(CurrentInput) \in 1..2
     /\ \/ client = "app" /\ lastSearch.type \in {"input", "toggle"}
        \/ client = "web" /\ lastSearch = [type |-> "fired", query |-> searchQuery])
        => Displayed = IdsOf(WebLocalSearch(CurrentInput))

\* C7: at most one scheduled search is pending at any time, and a scheduled
\* search that fires does so for the value the input holds at that moment.
C7_ChangeCancelsScheduledSearch ==
    /\ Len(timers) <= 1
    /\ lastSearch.type = "fired" => lastSearch.query = CurrentInput

\* C8: when the response to the most recently issued query has been written
\* and an older call that was in flight with it then completes last, the
\* result slot (searchResults, filteredLaws) keeps the newer query's result.
C8_OlderResponseNeverOverwrites ==
    [][(/\ Len(issuedQueries) >= 2
        /\ lastSearch = [type |-> "resolved",
                         query |-> issuedQueries[Len(issuedQueries)]]
        /\ \E c \in searchCalls : c.sid < Len(issuedQueries)
        /\ searchCalls' = {})
       => /\ searchResults' = searchResults
          /\ filteredLaws' = filteredLaws]_vars

\* C9 as the claim states it: in local mode every non-empty query, of every
\* length from 1, shows exactly the laws whose title, content or statute name
\* contains the query case-insensitively.
C9_LocalFilterTitleContentStatute ==
    (/\ ~useAISearch
     /\ CurrentInput # ""
     /\ \/ client = "app" /\ searchResults = None
        \/ client = "web" /\ lastSearch = [type |-> "fired", query |-> searchQuery])
        => Displayed = IdsOf(WebLocalSearch(CurrentInput))

\* C9: in local mode with a non-empty query, LawLibrary's filteredLaws is the
\* subsequence of the law set whose title, content or statute name contains
\* the query case-insensitively or whose section contains it as typed; the
\* local branch of the web App's handleSearch stores the subsequence matching
\* title, text or law_name case-insensitively for a query of 2 characters or
\* more, and the full law set for a query of 1 character.
C9_LocalFilterExact ==
    LET lower == toLowerCase(CurrentInput)
        inText(law) ==
            \/ includes(toLowerCase(law.title), lower)
            \/ includes(toLowerCase(law.content), lower)
            \/ includes(toLowerCase(law.statuteName), lower)
        shown(law) ==
            IF client = "app"
            THEN inText(law) \/ includes(law.section, CurrentInput)
            ELSE inText(law) \/ Len(CurrentInput) = 1
        list == IF client = "app"
                THEN IdsOf(LibraryFilteredLaws(searchTerm, useAISearch))
                ELSE filteredLaws
    IN  (/\ ~useAISearch
         /\ CurrentInput # ""
         /\ client = "web" => lastSearch = [type |-> "fired", query |-> searchQuery])
            => /\ \A i \in 1..Len(LAWS) :
                    shown(LAWS[i]) <=> \E j \in 1..Len(list) : list[j] = LAWS[i].id
               /\ \A j, k \in 1..Len(list) :
                    j < k => \E a, b \in 1..Len(LAWS) :
                                a < b /\ LAWS[a].id = list[j] /\ LAWS[b].id = list[k]

\* LawLibrary in local mode shows the law that only its section number matches
C9_Witness ==
    /\ client = "app"
    /\ ~useAISearch
    /\ searchTerm = "38"
    /\ searchResults = None
    /\ displayLaws = <<"CRIM-CODE-380">>

(***************************************************************************)
(* Rendering: what the user sees                                           *)
(***************************************************************************)
\* the parts returned by the call
RenderedParts ==
    IF rendered = None THEN {}
    ELSE {rendered[1][k] : k \in 1..Len(rendered[1])}

\* C10: a bracketed token [ID] of the rendered text is bound to a law if and
\* only if a known law's id equals ID exactly, and then it is bound to that law.
C10_BracketTokenBoundByExactId ==
    \A p \in RenderedParts :
        (p.part # "" /\ BracketTokenAt(p.part, 1, TRUE) = Len(p.part))
            => LET id == SubSeq(p.part, 2, Len(p.part) - 1)
               IN  /\ p.law # NULL <=> \E k \in 1..Len(laws) : laws[k] = id
                   /\ p.law # NULL => p.law = id

\* the parts of the first scan, in order, as the texts they were cut from
PartsInOrder == [k \in 1..Len(rendered[1]) |-> rendered[1][k].part]

\* C11: the parts renderMessageContent emits, taken in order, are the input
\* text, nothing lost, repeated or moved; and every part bound to no law
\* (plain text, an unresolved bracketed token or section reference) is a plain
\* span that shows the part's own characters.
C11_PartsCoverInputUnresolvedAsText ==
    rendered # None =>
        /\ Concat(PartsInOrder) = msgContent
        /\ \A p \in RenderedParts :
              p.law = NULL => p.kind = "span" /\ p.label = p.part

\* an unresolved bracketed token between two stretches of plain text
C11_Witness ==
    /\ rendered # None
    /\ msgContent = "See [crim-code-229] for details."
    /\ PartsInOrder = <<"See ", "[crim-code-229]", " for details.">>
    /\ rendered[1][2].kind = "span"

\* the section reference that is the whole of part, if part is one with a law
\* code: its candidate id, written out from the two groups of the reference
CandidateId(part) ==
    toUpperCase(SectionReferenceAt(part, 1).code) \o "-"
        \o SectionReferenceAt(part, 1).section

\* part is a reference "Section|Article|§ N[.M] (of|de) CODE" and nothing else
IsCodedReference(part) ==
    /\ part # ""
    /\ SectionReferenceAt(part, 1).end = Len(part)
    /\ SectionReferenceAt(part, 1).code # ""

\* C12: in LegalAssistant.tsx a section reference with a law code, in any
\* letter case, is bound to a law if and only if some known law's id equals
\* or starts with <CODE in upper case>-<number>; otherwise it is a plain span.
C12_CodedReferenceBoundByCandidateId ==
    client = "app" =>
        \A p \in RenderedParts :
            IsCodedReference(p.part) =>
                /\ p.law # NULL <=>
                      \E k \in 1..Len(laws) :
                          \/ laws[k] = CandidateId(p.part)
                          \/ startsWith(laws[k], CandidateId(p.part))
                /\ p.law = NULL => p.kind = "span" /\ p.label = p.part

\* a reference with its code in lower case, bound through the upper-case id
C12_Witness ==
    /\ client = "app"
    /\ \E p \in RenderedParts :
          /\ p.part = "$ 36.1 de irpa"
          /\ p.kind = "sectionButton"
          /\ p.law = "IRPA-36.1"

DrawnNodes == positions[1]

\* a position is the percentage c
IsPercent(p, c) == ~p.nan /\ p.num = c * p.den

\* a position lies in [lo, hi]
PercentWithin(p, lo, hi) ==
    /\ ~p.nan
    /\ \/ p.den > 0 /\ lo * p.den <= p.num /\ p.num <= hi * p.den
       \/ p.den < 0 /\ hi * p.den <= p.num /\ p.num <= lo * p.den

\* position p is not to the right of position q of the same timeline (the two
\* share the divisor)
NotRightOf(p, q) ==
    /\ ~p.nan /\ ~q.nan
    /\ \/ p.den > 0 /\ p.num <= q.num
       \/ p.den < 0 /\ q.num <= p.num

\* C14: the events whose date parses are the ones drawn, in ascending order
\* of their instants, at positions that never decrease along that order and
\* lie in [5,95]; a single event is at 50, and two or more events that share
\* one instant are all at 5.
C14_LayoutOrderedWithinBounds ==
    positions # None =>
        /\ {DrawnNodes[k].event : k \in 1..Len(DrawnNodes)}
              = {k \in 1..Len(events) : parsedDates[1][k] # None}
        /\ \A k \in 1..(Len(DrawnNodes) - 1) :
              /\ ~DrawnNodes[k].parsedDate.nan /\ ~DrawnNodes[k + 1].parsedDate.nan
              /\ DrawnNodes[k].parsedDate.n <= DrawnNodes[k + 1].parsedDate.n
              /\ NotRightOf(DrawnNodes[k].positionPercent, DrawnNodes[k + 1].positionPercent)
        /\ \A k \in 1..Len(DrawnNodes) :
              IF Len(DrawnNodes) = 1 THEN IsPercent(DrawnNodes[k].positionPercent, 50)
              ELSE IF \A j \in 1..Len(DrawnNodes) :
                         DrawnNodes[j].parsedDate = DrawnNodes[1].parsedDate
                   THEN IsPercent(DrawnNodes[k].positionPercent, 5)
                   ELSE PercentWithin(DrawnNodes[k].positionPercent, 5, 95)

\* the calendar date <<year, month, day>> a valid Date falls on
CalendarDateOf(date) == <<getFullYear(date.n), getMonth(date.n) + 1, getDate(date.n)>>

\* C15: parseDate applied to the long form or to the ISO-like form of a valid
\* calendar date returns an instant whose year, month and day are that date's.
C15_ParseDateRoundTrips ==
    parsedDates # None =>
        \A k \in 1..Len(events) : \A d \in CalendarDates :
            events[k] \in {LongForm(d), IsoForm(d)} =>
                /\ parsedDates[1][k] # None
                /\ ~parsedDates[1][k][1].nan
                /\ CalendarDateOf(parsedDates[1][k][1]) = d

\* C16: parseDate returns null for "Unknown" and for the empty string, and
\* for every string it returns null or an instant.
C16_ParseDateNullOrInstant ==
    parsedDates # None =>
        \A k \in 1..Len(events) :
            /\ events[k] \in {"", "Unknown"} => parsedDates[1][k] = None
            /\ parsedDates[1][k] = None \/ ~parsedDates[1][k][1].nan

(***************************************************************************)
(* Analyses without citations, and the web timeline                        *)
(***************************************************************************)
\* AnalysisPanel shows a result: it is not loading, shows no error, and has data
ResultShown ==
    /\ client \in {"app", "mvp"}
    /\ ~analysisState.isLoading
    /\ analysisState.error = NULL
    /\ analysisState.data # None

\* the analysis result a client holds, if any
StoredResult == IF client = "web" THEN analysis ELSE analysisState.data

ColorOf(result) == OrElse(result.consensus_color, "undefined")

\* C17: after a call that resolved with an object whose consensus colour is
\* absent or outside red / yellow / green / gray, the stored analysis result
\* carries gray; and whenever a result is stored, its consensus colour is one
\* of the four.
C17_ConsensusColorDefaultsToGray ==
    /\ (/\ lastEvent.type = "resolved"
        /\ serviceOutput # None
        /\ ColorOf(serviceOutput[1].fields) \notin ConsensusColors)
            => /\ StoredResult # None
               /\ ColorOf(StoredResult[1]) = "gray"
    /\ StoredResult # None => ColorOf(StoredResult[1]) \in ConsensusColors

\* malformed JSON, no output at all, or an object that lacks summary /
\* synthesis, citations or key_arguments
NonConforming(out) ==
    \/ out.kind \in {"malformed", "none"}
    \/ /\ out.kind = "object"
       /\ \/ out.fields.summary = None
          \/ out.fields.citations = None
          \/ out.fields.key_arguments = None

\* the failure of the call was reported: in the error of the analysis state,
\* or (web) by the console.error of the catch branch
ErrorReported ==
    IF client = "web" THEN lastEvent.type = "rejected"
    ELSE analysisState.error # NULL

\* C18: after a call that ended with a non-conforming output of the service,
\* no render of the panel throws, and the panel rendered for the state the
\* handler left is the result, unless the failure was reported.
C18_NonConformingOutputHandled ==
    (/\ lastEvent.type \in {"resolved", "rejected"}
     /\ serviceOutput # None
     /\ NonConforming(serviceOutput[1]))
        => /\ panel # "threw"
           /\ panel = PanelNow => (panel = "result" \/ ErrorReported)

\* C19: when no citations are available for the law, handleAnalyze ends with
\* a non-null error value, the loading flag false and no analysis result
\* shown: in the mvp App when no debate has the law's id, and in src/App.tsx
\* when the response has an empty citation list.
C19_NoCitationsEndsInError ==
    /\ (/\ client = "mvp"
        /\ lastEvent.type = "rejected"
        /\ Len(MOCK_DEBATES[lastEvent.law]) = 0)
            => ErrorValue # NULL /\ ~Loading /\ ~ResultShown
    /\ (/\ client = "app"
        /\ lastEvent.type = "resolved"
        /\ analysisState.relatedQuotes = <<>>)
            => ErrorValue # NULL /\ ~Loading /\ ~ResultShown

\* C20: in the web App, after a successful analysis response the timeline
\* events are the dated citations of that response, and none when it has no
\* citations: no event of an earlier response stays next to a newer analysis.
C20_TimelineFromLatestResponse ==
    (/\ client = "web"
     /\ lastEvent.type = "resolved"
     /\ analysis # None)
        => timelineEvents = TimelineEventsOf(analysis[1].citations)

\* the message list after a step is the list before it with one message added
Appended == Len(messages') = Len(messages) + 1

\* C21: in LegalAssistant.handleSend, the assistant message appended for a
\* directQuery that resolved is the answer followed by the caveat exactly when
\* the confidence returned is below 0.5, and the answer as it is when the
\* confidence is 0.5 or above.
C21_CaveatBelowHalfConfidence ==
    [][\A out \in DirectQueryOutcomes :
          (QuerySettles(out) /\ out.ok) =>
              /\ Appended
              /\ messages'[Len(messages')].role = "assistant"
              /\ out.confidence < LowConfidence
                    => messages'[Len(messages')].content = out.answer \o Caveat
              /\ out.confidence >= LowConfidence
                    => messages'[Len(messages')].content = out.answer]_vars

\* an answer was appended with the caveat, and one without it
C21_Witness ==
    /\ client = "app"
    /\ Len(messages) = 5
    /\ messages[3].content = "Section 36 of IRPA applies." \o Caveat
    /\ messages[5].content = "Section 36 of IRPA applies."

\* this step calls the semantic search (searchLaws, or the fetch of the web App)
SearchIssued == Len(issuedQueries') = Len(issuedQueries) + 1

\* C22: the semantic search is never called with a query shorter than 3
\* characters, and never called while semantic mode is off, in LawLibrary and
\* in the web App, whatever inputs, deletions and toggles came before.
C22_SemanticSearchOnlyInModeFromThreeChars ==
    [][SearchIssued =>
          /\ Len(issuedQueries'[Len(issuedQueries')]) >= 3
          /\ useAISearch]_vars

\* s has the long structure (word, word, day number, four-digit year) and the
\* month word of its first match is none of the twelve names of the table
LongWithUnknownMonth(s) ==
    /\ {i \in 1..Len(s) : longFormatAt(s, i)} # {}
    /\ MonthIndex(s, First({i \in 1..Len(s) : longFormatAt(s, i)})) = {}

\* C23: for a date string that has the long structure but whose month word is
\* not in the months table, parseDate returns null: neither the ISO-like
\* pattern nor the native parse is tried on it.
C23_UnknownMonthIsUnparseable ==
    parsedDates # None =>
        \A k \in 1..Len(events) :
            LongWithUnknownMonth(events[k]) => parsedDates[1][k] = None

\* the nodes drawn for event k of the input
NodesOf(k) == {j \in 1..Len(DrawnNodes) : DrawnNodes[j].event = k}

\* the quote convertAnalysis makes of a citation that carries no date
UndatedQuote ==
    convertAnalysis([law |-> "CRIM-CODE-229",
                     citations |-> <<[law |-> "CRIM-CODE-229", date |-> ""]>>]).quotes[1]

ServiceCalled == Cardinality(pending') > Cardinality(pending)

\* C25: when the text of the generative service is no JSON or is empty,
\* analyzeLegislativeIntent rejects and handleAnalyze ends in its catch branch
\* without another call; the service is called only by a handleAnalyze the
\* user triggered, once.
C25_ParseFailureRejectsWithoutRetry ==
    [][client = "mvp" =>
          /\ \A r \in pending : \A out \in ServiceOutputs(r.law) :
                (MvpResponseSettles(r, out) /\ out.kind \in {"malformed", "none"}) =>
                    /\ ~analyzeLegislativeIntent(out).ok
                    /\ lastEvent'.type = "rejected"
                    /\ analysisState'.error # NULL
                    /\ ~analysisState'.isLoading
                    /\ pending' = pending \ {r}
          /\ ServiceCalled =>
                /\ lastEvent'.type = "analyze"
                /\ issued' = issued + 1
                /\ Cardinality(pending') = Cardinality(pending) + 1]_vars

\* the one call of a handleAnalyze ended with text that is no JSON
C25_Witness ==
    /\ client = "mvp"
    /\ issued = 1
    /\ lastEvent.type = "rejected"
    /\ serviceOutput # None
    /\ serviceOutput[1].kind = "malformed"
    /\ pending = {}
    /\ analysisState.error = "Unexpected token"

\* C26: the step in which an analysis request fails leaves the analysis result
\* and the related quotes held before it (in the web App the analysis and the
\* timeline events) as they were; it clears the loading flag and, in
\* src/App.tsx and the MVP App, writes the error value.
C26_FailureKeepsPriorData ==
    [][lastEvent'.type = "rejected" =>
          /\ analysisState'.data = analysisState.data
          /\ analysisState'.relatedQuotes = analysisState.relatedQuotes
          /\ analysis' = analysis
          /\ timelineEvents' = timelineEvents
          /\ selectedLaw' = selectedLaw
          /\ client = "web" => analysisState' = analysisState /\ ~isLoading'
          /\ client # "web" => ~analysisState'.isLoading /\ isLoading' = isLoading]_vars

\* a failure after a success: the result of the first request is still held
C26_Witness ==
    /\ lastEvent.type = "rejected"
    /\ \/ /\ client = "app"
          /\ analysisState.data # None
          /\ analysisState.relatedQuotes # <<>>
          /\ analysisState.error = "Failed to analyze intent"
       \/ /\ client = "web"
          /\ analysis # None
          /\ timelineEvents # <<>>

\* C27: in src/App.tsx analysisState.isLoading is true exactly when an
\* analysis request is in flight, and at most one request is in flight.
C27_LoadingIffOneRequestInFlight ==
    client = "app" =>
        /\ analysisState.isLoading <=> pending # {}
        /\ Cardinality(pending) <= 1

\* what the client's own local search gives for the query in the input
LocalResult ==
    IF client = "web"
    THEN IF Len(searchQuery) < 2 THEN IdsOf(LAWS)
         ELSE IdsOf(WebLocalSearch(searchQuery))
    ELSE IdsOf(LibraryFilteredLaws(searchTerm, FALSE))

\* C28: in local mode, once no search is scheduled and none is in flight, the
\* list displayed is the local result for the query in the input (every law
\* for the empty query), whatever semantic search was scheduled or in flight
\* when the mode was switched.
C28_LocalModeShowsLocalResult ==
    (/\ ~useAISearch
     /\ timers = <<>>
     /\ searchCalls = {})
        => Displayed = LocalResult

\* C29: when a known law's id equals the candidate id "<CODE>-<number>" of a
\* section reference, the reference is bound to that law, whatever other laws
\* whose ids start with the candidate id are known and whatever their order.
C29_ExactIdWinsOverPrefix ==
    client = "app" =>
        \A p \in RenderedParts :
            (/\ IsCodedReference(p.part)
             /\ \E k \in 1..Len(laws) : laws[k] = CandidateId(p.part)) =>
                p.law = CandidateId(p.part)

\* the same, for the orders in which the law of the exact id comes before
\* every other law whose id starts with the candidate id
C29_ExactIdFirstIsBound ==
    client = "app" =>
        \A p \in RenderedParts :
            (/\ IsCodedReference(p.part)
             /\ \E k \in 1..Len(laws) :
                   /\ laws[k] = CandidateId(p.part)
                   /\ \A j \in 1..(k - 1) : ~startsWith(laws[j], CandidateId(p.part))) =>
                p.law = CandidateId(p.part)

\* "Section 36 of IRPA" rendered while IRPA-36.1 precedes IRPA-36
C29_PrefixLawBound ==
    /\ client = "app"
    /\ \E p \in RenderedParts :
          /\ IsCodedReference(p.part)
          /\ CandidateId(p.part) = "IRPA-36"
          /\ p.law = "IRPA-36.1"
          /\ \E k \in 1..Len(laws) : laws[k] = "IRPA-36"

\* the number of messages of a role in the list
CountRole(role) == Cardinality({k \in 1..Len(messages) : messages[k].role = role})

\* queries sent and not yet answered: every send appends one user message,
\* every settled query one assistant message after the greeting
InFlight == CountRole("user") - (CountRole("assistant") - 1)

\* the texts handleSend appends when the query fails
FallbackTexts == {QueryFailedText, MvpQueryFailedText}

\* the message list grows by a message of the role
AppendsOne(role) ==
    /\ Len(messages') = Len(messages) + 1
    /\ SubSeq(messages', 1, Len(messages)) = messages
    /\ messages'[Len(messages')].role = role

\* at most one query in flight, isTyping set exactly while it is, and the
\* roles alternate from the greeting
OneQueryAlternating ==
    /\ InFlight \in {0, 1}
    /\ isTyping <=> InFlight = 1
    /\ \A k \in 1..Len(messages) :
          messages[k].role = IF k % 2 = 1 THEN "assistant" ELSE "user"

\* the message list changes only by a send on a non-blank input with no query
\* in flight, which appends the one user message, or by the end of the query,
\* which appends the one assistant message and clears isTyping
SendThenOneAnswer ==
    /\ messages' # messages =>
          \/ /\ ~isTyping /\ trim(input) # ""
             /\ AppendsOne("user")
             /\ messages'[Len(messages')].content = trim(input)
             /\ isTyping'
          \/ /\ isTyping
             /\ AppendsOne("assistant")
             /\ ~isTyping'
    /\ isTyping' # isTyping => messages' # messages
    /\ (isTyping \/ trim(input) = "") => ~(HandleSend /\ messages' # messages)

\* C30: handleSend does nothing on a blank input or while a query is in
\* flight; otherwise it appends exactly one user message and, once the query
\* resolves or rejects, exactly one assistant message, and clears isTyping.
\* At most one query is in flight, the roles alternate from the greeting, and
\* isTyping is eventually false after every send.
C30_OneQueryAtATime ==
    /\ []OneQueryAlternating
    /\ [][SendThenOneAnswer]_vars
    /\ (isTyping ~> ~isTyping)

\* two sends, the first answered by the fallback text of a rejected query,
\* the second by an answer
C30_Witness ==
    /\ Len(messages) = 5
    /\ ~isTyping
    /\ messages[3].content \in FallbackTexts
    /\ messages[5].content \notin FallbackTexts

====
